---- MODULE Spec2Model ----
(***************************************************************************)
(* Model of subliminal/providers/sucha.py: the SuchaSubtitle candidate     *)
(* record and the SuchaProvider operations query, get_file and             *)
(* download_subtitle.                                                      *)
(*                                                                         *)
(* Python strings and byte strings are sequences of one-character strings, *)
(* so that len, lower, startswith, endswith, the "in" substring test and   *)
(* the f-string formatting are computed character by character.            *)
(* Python values whose type matters (None, int, str) are records           *)
(* [t |-> type, s |-> characters, n |-> number].                           *)
(***************************************************************************)
EXTENDS Integers, Sequences, FiniteSets, TLC

VARIABLES
    pc,         \* position of the caller: "call", "return", "raise", or the name
                \* of the operation that just ran
    video,      \* the video passed to query
    response,   \* what the GET of query received: a transport failure, or a
                \* status and a body
    raised,     \* the exception query raised, "none" when it returned
    q,          \* the params dict query sent with its GET
    subtitles,  \* the list of SuchaSubtitle objects query returned, empty when
                \* it raised
    archive,    \* the archive passed to get_file / opened by _get_archive
    extracted,  \* what get_file did: outcome, name returned, entries read
    gm,         \* the get_matches call just made: candidate, video, set returned
    dl          \* the download_subtitle call just made: candidate, response,
                \* outcome and the calls it made, in order

vars == <<pc, video, response, raised, q, subtitles, archive, extracted, gm, dl>>

\* results = result.json()
body == response.json

(***************************************************************************)
(* Bounds                                                                  *)
(***************************************************************************)
MaxResults == 2     \* longest JSON array in a search response
MaxEntries == 3     \* longest archive listing

(***************************************************************************)
(* Python values                                                           *)
(***************************************************************************)
None == [t |-> "none", s |-> << >>, n |-> 0]
PyInt(n) == [t |-> "int", s |-> << >>, n |-> n]
PyStr(s) == [t |-> "str", s |-> s, n |-> 0]

\* bool(x) for the value kinds above
Truthy(x) ==
    CASE x.t = "none" -> FALSE
      [] x.t = "int"  -> x.n # 0
      [] x.t = "str"  -> x.s # << >>

\* x or y
PyOr(x, y) == IF Truthy(x) THEN x ELSE y

\* x == y: values of different types are unequal
PyEq(x, y) == x.t = y.t /\ x.s = y.s /\ x.n = y.n

DigitChars == <<"0", "1", "2", "3", "4", "5", "6", "7", "8", "9">>

RECURSIVE Digits(_)
\* decimal digits of a non-negative integer
Digits(n) ==
    IF n < 10 THEN <<DigitChars[n + 1]>>
    ELSE Digits(n \div 10) \o <<DigitChars[(n % 10) + 1]>>

\* str(x) as a character sequence
StrChars(x) ==
    CASE x.t = "int"  -> Digits(x.n)
      [] x.t = "str"  -> x.s
      [] x.t = "none" -> <<"N", "o", "n", "e">>

\* str(x) as a Python value
Str(x) == PyStr(StrChars(x))

\* format(n, "02"): at least two digits, zero-filled on the left
Format02(n) == IF n < 10 THEN <<"0">> \o Digits(n) ELSE Digits(n)

\* response.raise_for_status(): HTTPError for 4xx and 5xx
RaiseForStatus(resp) == 400 <= resp.status /\ resp.status < 600

(***************************************************************************)
(* str methods                                                             *)
(***************************************************************************)
\* the cased characters of Latin-1 and their lower-case forms; characters
\* outside Latin-1 do not occur in the strings of this model
UpperChars == <<"A", "B", "C", "D", "E", "F", "G", "H", "I", "J", "K", "L", "M",
                "N", "O", "P", "Q", "R", "S", "T", "U", "V", "W", "X", "Y", "Z",
                "À", "Á", "Â", "Ã", "Ä", "Å", "Æ", "Ç", "È", "É", "Ê", "Ë", "Ì",
                "Í", "Î", "Ï", "Ð", "Ñ", "Ò", "Ó", "Ô", "Õ", "Ö", "Ø", "Ù", "Ú",
                "Û", "Ü", "Ý", "Þ">>
LowerChars == <<"a", "b", "c", "d", "e", "f", "g", "h", "i", "j", "k", "l", "m",
                "n", "o", "p", "q", "r", "s", "t", "u", "v", "w", "x", "y", "z",
                "à", "á", "â", "ã", "ä", "å", "æ", "ç", "è", "é", "ê", "ë", "ì",
                "í", "î", "ï", "ð", "ñ", "ò", "ó", "ô", "õ", "ö", "ø", "ù", "ú",
                "û", "ü", "ý", "þ">>

CaseMap ==
    [c \in {UpperChars[i] : i \in DOMAIN UpperChars} |->
        LowerChars[CHOOSE i \in DOMAIN UpperChars : UpperChars[i] = c]]

LowerChar(c) == IF c \in DOMAIN CaseMap THEN CaseMap[c] ELSE c

\* s.lower()
Lower(s) == [i \in DOMAIN s |-> LowerChar(s[i])]

\* s.startswith(p)
StartsWith(s, p) == Len(p) <= Len(s) /\ SubSeq(s, 1, Len(p)) = p

\* s.endswith(p)
EndsWith(s, p) == Len(p) <= Len(s) /\ SubSeq(s, Len(s) - Len(p) + 1, Len(s)) = p

\* sub in s
Contains(sub, s) ==
    \E i \in 0..(Len(s) - Len(sub)) : SubSeq(s, i + 1, i + Len(sub)) = sub

\* os.path.split(name)[-1] (posixpath): what follows the last "/"
PathTail(name) ==
    LET slashes == {i \in DOMAIN name : name[i] = "/"}
        cut     == IF slashes = {} THEN 0
                   ELSE CHOOSE i \in slashes : \A j \in slashes : j <= i
    IN  SubSeq(name, cut + 1, Len(name))

(***************************************************************************)
(* SuchaProvider.get_file                                                  *)
(***************************************************************************)
DotSrt == <<".", "s", "r", "t">>
MarkEng == <<"[", "e", "n", "g", "]">>
MarkDotEn == <<".", "e", "n", ".">>
MarkDotEng == <<".", "e", "n", "g", ".">>

\* the first "continue": hidden file
IsHidden(name) == StartsWith(PathTail(name), <<".">>)

\* NotSrt with the extension compared without lower-casing
NotSrt_caseSensitive(name) == ~EndsWith(name, DotSrt)

\* the second "continue": not a .srt file
NotSrt(name) == ~EndsWith(Lower(name), DotSrt)

\* the third "continue": the name carries an English marker
IsEnglish(name) ==
    \/ Contains(MarkEng, Lower(name))
    \/ Contains(MarkDotEn, Lower(name))
    \/ Contains(MarkDotEng, Lower(name))

\* archive.namelist()
NameList(a) == [i \in DOMAIN a |-> a[i].name]

\* archive.read(name): the data of the member called name; of several
\* members with one name the archive's name table keeps the last
ReadMember(a, name) ==
    LET named == {i \in DOMAIN a : a[i].name = name}
    IN  a[CHOOSE i \in named : \A j \in named : j <= i].data

RECURSIVE ScanNames(_, _, _)
\* the for loop of get_file from position i on; the result records the
\* outcome, the name whose member was read, the bytes returned and every
\* archive.read call made
ScanNames(a, names, i) ==
    IF i > Len(names)
    THEN [outcome |-> "ValueError: Can not find the subtitle in the compressed file",
          name |-> << >>, data |-> << >>, reads |-> << >>]
    ELSE IF IsHidden(names[i]) THEN ScanNames(a, names, i + 1)
    ELSE IF NotSrt(names[i]) THEN ScanNames(a, names, i + 1)
    ELSE IF IsEnglish(names[i]) THEN ScanNames(a, names, i + 1)
    ELSE [outcome |-> "return", name |-> names[i],
          data |-> ReadMember(a, names[i]), reads |-> <<names[i]>>]

get_file(a) == ScanNames(a, NameList(a), 1)

NoVideo == [kind |-> "none"]
NoResponse == [t |-> "none", status |-> 0, json |-> [t |-> "dict", v |-> << >>]]
NoCall == [index |-> 0]
NoDownload == [index |-> 0]

NotExtracted == [outcome |-> "none", name |-> << >>, data |-> << >>, reads |-> << >>]

(***************************************************************************)
(* Archive inputs                                                          *)
(***************************************************************************)
N_movie_srt      == <<"m", ".", "s", "r", "t">>
N_movie_SRT      == <<"M", ".", "S", "R", "T">>
N_movie_eng_srt  == <<"m", ".", "e", "n", "g", ".", "s", "r", "t">>
N_movie_EN_srt   == <<"m", ".", "E", "N", ".", "s", "r", "t">>
N_brEng_srt      == <<"[", "E", "n", "g", "]", "m", ".", "s", "r", "t">>
N_hidden_srt     == <<".", "h", ".", "s", "r", "t">>
N_dir_hidden_srt == <<"d", "/", ".", "h", ".", "s", "r", "t">>
N_hiddendir_srt  == <<".", "g", "/", "m", ".", "s", "r", "t">>
N_engdir_srt     == <<"a", ".", "e", "n", ".", "d", "/", "m", ".", "s", "r", "t">>
N_men_srt        == <<"m", "e", "n", "g", ".", "s", "r", "t">>
N_movie_txt      == <<"m", ".", "t", "x", "t">>
N_srt_dir        == <<"m", ".", "s", "r", "t", "/">>
N_srt_only       == <<"s", "r", "t">>
N_accent_SRT     == <<"É", ".", "S", "r", "T">>

EntryNames ==
    {N_movie_srt, N_movie_SRT, N_movie_eng_srt, N_movie_EN_srt, N_brEng_srt,
     N_hidden_srt, N_dir_hidden_srt, N_hiddendir_srt, N_engdir_srt, N_men_srt,
     N_movie_txt, N_srt_dir, N_srt_only, N_accent_SRT}

D_crlf == <<"a", "\r", "\n", "b">>
D_lf   == <<"c", "\n">>

RECURSIVE SeqsUpTo(_, _)
\* the sequences over S of length at most n
SeqsUpTo(S, n) ==
    IF n = 0 THEN {<< >>}
    ELSE LET shorter == SeqsUpTo(S, n - 1)
         IN  shorter \cup {Append(s, x) : s \in shorter, x \in S}

\* the archive with the listing names; the bytes of a member tell its
\* position, and one name may occur more than once
ArchiveOf(names) ==
    [i \in DOMAIN names |->
        [name |-> names[i], data |-> <<DigitChars[i + 1], "\r", "\n">>]]

Archives == {ArchiveOf(names) : names \in SeqsUpTo(EntryNames, MaxEntries)}

(***************************************************************************)
(* Specification of get_file alone: the archive is drawn by Init and       *)
(* GetFile applies get_file to it.                                         *)
(***************************************************************************)
InitArchive ==
    /\ pc = "call"
    /\ archive \in Archives
    /\ extracted = NotExtracted
    /\ video = NoVideo
    /\ response = NoResponse
    /\ raised = "none"
    /\ q = None
    /\ subtitles = << >>
    /\ gm = NoCall
    /\ dl = NoDownload

GetFile ==
    /\ pc = "call"
    /\ extracted' = get_file(archive)
    /\ pc' = IF extracted'.outcome = "return" THEN "return" ELSE "raise"
    /\ UNCHANGED <<video, response, raised, q, subtitles, archive, gm, dl>>

NextArchive == GetFile

SpecArchive == InitArchive /\ [][NextArchive]_vars

(***************************************************************************)
(* Videos: Movie(title, year) and Episode(series, season, episode, title,  *)
(* year) of subliminal.video, as far as this provider reads them.          *)
(***************************************************************************)
S_Up     == <<"U", "p">>
S_Up2    == <<"U", "p", " ", "2">>
S_Ab     == <<"A", "b">>
S_2020   == <<"2", "0", "2", "0">>
S_El     == <<"É", "l">>

Movie(title, year) == [kind |-> "movie", title |-> title, year |-> year]
Episode(series, season, episode, title, year) ==
    [kind |-> "episode", title |-> title, year |-> year,
     series |-> series, season |-> season, episode |-> episode]

\* isinstance(video, Episode)
IsEpisode(v) == v.kind = "episode"

VideoYears == {None, PyStr(S_2020), PyInt(2020), PyStr(<< >>)}

Movies ==
    {Movie(t, y) : t \in {S_Up, S_Up2}, y \in VideoYears} \cup {Movie(S_El, None)}

Episodes ==
    {Episode(S_Ab, s, e, S_Up, y) :
        s \in {1, 12}, e \in {2, 10, 100}, y \in {None, PyStr(S_2020)}}

Videos == Movies \cup Episodes

(***************************************************************************)
(* Search responses: a JSON object, or a JSON array of result objects.     *)
(* A result object is a function from its keys; "title" and "alt_title"    *)
(* may be missing.                                                         *)
(***************************************************************************)
R_Up2020  == <<"U", "p", ".", "2", "0", "2", "0">>
F_upsrt   == <<"u", "p", ".", "s", "r", "t">>
R_AbS01   == <<"A", "b", ".", "S", "0", "1", "E", "0", "2">>
F_abs12   == <<"a", "b", ".", "s", "1", "2", "e", "1", "0">>
R_x       == <<"x">>
F_Up2srt  == <<"U", "P", " ", "2", ".", "s", "r", "t">>

T_up      == <<"u", "p">>
T_TheUp2  == <<"T", "h", "e", " ", "U", "P", " ", "2">>
T_u       == <<"U">>
T_AbS01   == <<"A", "B", " ", "S", "0", "1", "E", "0", "2", " ", "x">>
T_AbS01sp == <<"a", "b", " ", "s", "0", "1", " ", "e", "0", "2">>
T_abs12   == <<"a", "b", " ", "s", "1", "2", "e", "1", "0">>
T_ELITE   == <<"É", "L", "I", "T", "E">>

Items ==
    { [title |-> T_up, year |-> PyInt(2020),
       release |-> R_Up2020, filename |-> F_upsrt, id |-> PyInt(7)],
      [title |-> T_u, alt_title |-> T_TheUp2, year |-> PyStr(S_2020),
       release |-> R_x, filename |-> F_Up2srt, id |-> PyInt(42)],
      [title |-> T_ELITE, year |-> PyInt(1999),
       release |-> R_AbS01, filename |-> F_abs12, id |-> PyStr(<<"k">>)],
      [alt_title |-> T_AbS01, year |-> PyInt(1999),
       release |-> R_AbS01, filename |-> F_abs12, id |-> PyInt(3)],
      [title |-> T_AbS01sp, year |-> PyInt(2020),
       release |-> R_x, filename |-> F_upsrt, id |-> PyInt(100)],
      [title |-> T_abs12, alt_title |-> T_u, year |-> PyInt(1999),
       release |-> R_Up2020, filename |-> F_Up2srt, id |-> PyInt(5)],
      [year |-> PyInt(2020),
       release |-> R_x, filename |-> R_x, id |-> PyInt(0)] }

JsonObject == [t |-> "dict", v |-> << >>]
JsonArray(items) == [t |-> "list", v |-> items]

Bodies == {JsonObject} \cup {JsonArray(s) : s \in SeqsUpTo(Items, MaxResults)}

\* a body that is not JSON, and the JSON value null
NotJson == [t |-> "invalid", v |-> << >>]
JsonNull == [t |-> "null", v |-> << >>]

\* what self.session.get gives query: it raises, or returns a response
SearchFailure == [t |-> "error", status |-> 0, json |-> NotJson]
SearchReply(status, json) == [t |-> "response", status |-> status, json |-> json]

OneResult == JsonArray(<<CHOOSE item \in Items : item["id"] = PyInt(7)>>)

SearchResponses ==
    {SearchReply(200, b) : b \in Bodies}
    \cup {SearchFailure,
          SearchReply(500, OneResult), SearchReply(404, JsonObject),
          SearchReply(503, NotJson), SearchReply(204, OneResult),
          SearchReply(200, NotJson), SearchReply(200, JsonNull)}

(***************************************************************************)
(* SuchaSubtitle                                                           *)
(***************************************************************************)
Spanish == "es"     \* language_list[0]

\* __init__ with ">=" in place of ">": release_info wins a tie
SuchaSubtitle_releaseOnTie(language, release_info, filename, download_id, download_type, matches) ==
    [language             |-> language,
     download_id          |-> download_id,
     download_type        |-> download_type,
     guessed_release_info |-> release_info,
     filename             |-> filename,
     release_info         |-> IF Len(release_info) >= Len(filename)
                              THEN release_info ELSE filename,
     found_matches        |-> matches,
     content              |-> None]

\* __init__: the field assignments; content is None in a new Subtitle
SuchaSubtitle(language, release_info, filename, download_id, download_type, matches) ==
    [language             |-> language,
     download_id          |-> download_id,
     download_type        |-> download_type,
     guessed_release_info |-> release_info,
     filename             |-> filename,
     release_info         |-> IF Len(release_info) > Len(filename)
                              THEN release_info ELSE filename,
     found_matches        |-> matches,
     content              |-> None]

\* the info property
info(sub) == sub.release_info

\* the id property
id(sub) == sub.download_id

(***************************************************************************)
(* SuchaProvider.query                                                     *)
(***************************************************************************)
\* "episode" if is_episode else "movie"
TypeStr(v) == IF IsEpisode(v) THEN "episode" ELSE "movie"

\* the f-string without the zero fill
EpisodeQuery_unpadded(v) ==
    v.series \o <<" ", "S">> \o Digits(v.season) \o <<"E">> \o Digits(v.episode)

\* the f-string of query for an episode
EpisodeQuery(v) ==
    v.series \o <<" ", "S">> \o Format02(v.season) \o <<"E">> \o Format02(v.episode)

\* the params dict q
QueryParams(v) ==
    IF IsEpisode(v)
    THEN [query |-> EpisodeQuery(v)]
    ELSE [query |-> v.title, year |-> PyOr(v.year, PyStr(<<"0">>))]

\* item.get(key, default)
Get(item, key, default) == IF key \in DOMAIN item THEN item[key] ELSE default

\* the "title" test with containment tried in both directions
TitleMatches_bothWays(v, title, alt_title) ==
    \/ Contains(Lower(v.title), title) \/ Contains(Lower(v.title), alt_title)
    \/ Contains(title, Lower(v.title)) \/ Contains(alt_title, Lower(v.title))

\* the "title" test of the loop body
TitleMatches(v, title, alt_title) ==
    Contains(Lower(v.title), title) \/ Contains(Lower(v.title), alt_title)

\* the "year" test with both sides converted by str
YearMatches_bothStr(v, item) ==
    v.year.t # "none" /\ StrChars(item["year"]) = StrChars(v.year)

\* the "year" test of the loop body
YearMatches(v, item) == PyEq(Str(item["year"]), v.year)

\* the episode test of the loop body
QueryMatches(v, qp, title, alt_title) ==
    IsEpisode(v) /\ (Contains(Lower(qp.query), title) \/ Contains(Lower(qp.query), alt_title))

\* the match set the loop body builds for one item
ItemMatches(v, qp, item) ==
    LET title     == Lower(Get(item, "title", << >>))
        alt_title == Lower(Get(item, "alt_title", title))
    IN  (IF TitleMatches(v, title, alt_title) THEN {"title"} ELSE {})
        \cup (IF YearMatches(v, item) THEN {"year"} ELSE {})
        \cup (IF QueryMatches(v, qp, title, alt_title)
              THEN {"title", "series", "season", "episode", "year"} ELSE {})

\* the loop body: one SuchaSubtitle per item
ItemSubtitle(v, qp, item) ==
    SuchaSubtitle(Spanish, item["release"], item["filename"],
                  StrChars(item["id"]), TypeStr(v), ItemMatches(v, qp, item))

\* query with the append after the loop: only the last item is kept
query_appendAfterLoop(v, b) ==
    IF b.t = "dict" \/ b.v = << >> THEN << >>
    ELSE <<ItemSubtitle(v, QueryParams(v), b.v[Len(b.v)])>>

\* the list query returns for a parsed body
query(v, b) ==
    IF b.t = "dict" THEN << >>
    ELSE [i \in DOMAIN b.v |-> ItemSubtitle(v, QueryParams(v), b.v[i])]

\* query from its GET on: the exception raised ("none" when it returns) and
\* the list returned
search(v, resp) ==
    LET raise(exception) == [raised |-> exception, subtitles |-> << >>]
    IN  IF resp.t = "error" THEN raise("RequestException")
        ELSE IF RaiseForStatus(resp) THEN raise("HTTPError")
        ELSE IF resp.json.t = "invalid" THEN raise("JSONDecodeError")
        ELSE IF resp.json.t = "null" THEN raise("TypeError")
        ELSE [raised |-> "none", subtitles |-> query(v, resp.json)]

(***************************************************************************)
(* Specification of query alone: the video and the search response are     *)
(* drawn by Init and Query applies query to them.                          *)
(***************************************************************************)
InitQuery ==
    /\ pc = "call"
    /\ video \in Videos
    /\ response \in SearchResponses
    /\ raised = "none"
    /\ q = None
    /\ subtitles = << >>
    /\ archive = << >>
    /\ extracted = NotExtracted
    /\ gm = NoCall
    /\ dl = NoDownload

Query ==
    /\ pc = "call"
    /\ q' = QueryParams(video)
    /\ raised' = search(video, response).raised
    /\ subtitles' = search(video, response).subtitles
    /\ pc' = IF raised' = "none" THEN "return" ELSE "raise"
    /\ UNCHANGED <<video, response, archive, extracted, gm, dl>>

NextQuery == Query

SpecQuery == InitQuery /\ [][NextQuery]_vars

(***************************************************************************)
(* SuchaSubtitle.get_matches                                               *)
(***************************************************************************)
\* guess_matches(video, guessit(text, {"type": ...})): the tags on which the
\* properties guessed from text agree with the video
GuessMatches(v, text) ==
    LET t == Lower(text)
    IN  (IF IsEpisode(v)
         THEN (IF Contains(Lower(v.series), t) THEN {"series"} ELSE {})
              \cup (IF Contains(<<"s">> \o Format02(v.season), t)
                    THEN {"season"} ELSE {})
              \cup (IF Contains(<<"e">> \o Format02(v.episode), t)
                    THEN {"episode"} ELSE {})
         ELSE (IF Contains(Lower(v.title), t) THEN {"title"} ELSE {}))
        \cup (IF v.year.t = "str" /\ v.year.s # << >> /\ Contains(v.year.s, t)
              THEN {"year"} ELSE {})

\* get_matches with "=" in place of the first "|="
get_matches_reset(sub, v) ==
    LET first  == GuessMatches(v, sub.filename)
        second == first \cup GuessMatches(v, sub.guessed_release_info)
    IN  [sub EXCEPT !.found_matches = second]

\* the candidate after get_matches(video): both |= statements
get_matches(sub, v) ==
    LET first  == sub.found_matches \cup GuessMatches(v, sub.filename)
        second == first \cup GuessMatches(v, sub.guessed_release_info)
    IN  [sub EXCEPT !.found_matches = second]

(***************************************************************************)
(* SuchaProvider.download_subtitle                                         *)
(***************************************************************************)
\* _check_response that accepts every status
CheckResponse_never(resp) == FALSE

\* _check_response raises
CheckResponse(resp) == resp.status # 200

\* _get_archive without the final else: an unknown stream is opened as ZIP
GetArchive_noElse(content) ==
    IF content.rar
    THEN [outcome |-> "return", kind |-> "rar",
          trace |-> <<"is_rarfile", "RarFile">>]
    ELSE [outcome |-> "return", kind |-> "zip",
          trace |-> <<"is_rarfile", "is_zipfile", "ZipFile">>]

\* _get_archive: the sniffing calls made, and the archive opened
GetArchive(content) ==
    IF content.rar
    THEN [outcome |-> "return", kind |-> "rar",
          trace |-> <<"is_rarfile", "RarFile">>]
    ELSE IF content.zip
    THEN [outcome |-> "return", kind |-> "zip",
          trace |-> <<"is_rarfile", "is_zipfile", "ZipFile">>]
    ELSE [outcome |-> "ValueError: Unsupported compressed format", kind |-> "none",
          trace |-> <<"is_rarfile", "is_zipfile">>]

RECURSIVE fix_line_ending(_)
\* subliminal.subtitle.fix_line_ending: "\r\n" becomes "\n"
fix_line_ending(data) ==
    IF data = << >> THEN << >>
    ELSE IF Len(data) >= 2 /\ data[1] = "\r" /\ data[2] = "\n"
    THEN <<"\n">> \o fix_line_ending(SubSeq(data, 3, Len(data)))
    ELSE <<data[1]>> \o fix_line_ending(Tail(data))

Bytes(data) == [t |-> "bytes", s |-> data, n |-> 0]

\* download_subtitle on one candidate and the response its GET receives:
\* the outcome, the calls made in order, the archive opened, what get_file
\* did, and the candidate afterwards
download_subtitle(sub, resp) ==
    LET fail(outcome, trace, members, ext) ==
            [outcome |-> outcome, trace |-> trace, archive |-> members,
             extracted |-> ext, subtitle |-> sub]
    IN  IF resp.t = "error"
        THEN fail("RequestException", <<"GET">>, << >>, NotExtracted)
        ELSE IF RaiseForStatus(resp)
        THEN fail("HTTPError", <<"GET">>, << >>, NotExtracted)
        ELSE IF CheckResponse(resp)
        THEN fail("ProviderError: Bad status code", <<"GET">>, << >>, NotExtracted)
        ELSE LET opened == GetArchive(resp.content)
             IN  IF opened.outcome # "return"
                 THEN fail(opened.outcome, <<"GET">> \o opened.trace, << >>,
                           NotExtracted)
                 ELSE LET ext   == get_file(resp.content.members)
                          scan  == <<"namelist">> \o [i \in DOMAIN ext.reads |-> "read"]
                          trace == <<"GET">> \o opened.trace \o scan
                      IN  IF ext.outcome # "return"
                          THEN fail(ext.outcome, trace, resp.content.members, ext)
                          ELSE [outcome |-> "return",
                                trace |-> trace \o <<"fix_line_ending">>,
                                archive |-> resp.content.members,
                                extracted |-> ext,
                                subtitle |->
                                    [sub EXCEPT !.content =
                                        Bytes(fix_line_ending(ext.data))]]

(***************************************************************************)
(* Inputs of a provider session                                            *)
(***************************************************************************)
SessionVideos ==
    {Movie(S_Up, PyStr(S_2020)), Movie(S_Up2, None),
     Episode(S_Ab, 1, 2, S_Up, None)}

SessionItems ==
    <<[title |-> T_up, year |-> PyInt(2020),
       release |-> R_Up2020, filename |-> F_abs12, id |-> PyInt(7)],
      [alt_title |-> T_AbS01, year |-> PyInt(1999),
       release |-> R_AbS01, filename |-> F_abs12, id |-> PyInt(3)],
      [title |-> T_u, alt_title |-> T_TheUp2, year |-> PyStr(S_2020),
       release |-> R_x, filename |-> F_Up2srt, id |-> PyInt(42)],
      [title |-> T_up, year |-> PyInt(2020),
       release |-> R_Up2020, filename |-> F_upsrt, id |-> PyInt(100)]>>

SessionBodies ==
    {JsonObject,
     JsonArray(<<SessionItems[1], SessionItems[2]>>),
     JsonArray(<<SessionItems[2], SessionItems[3]>>),
     JsonArray(<<SessionItems[2], SessionItems[4]>>),
     JsonArray(<<SessionItems[3]>>)}

SessionResponses ==
    {SearchReply(200, b) : b \in SessionBodies}
    \cup {SearchFailure, SearchReply(500, JsonArray(<<SessionItems[1]>>)),
          SearchReply(200, NotJson)}

A_example ==
    <<[name |-> N_movie_eng_srt, data |-> D_lf],
      [name |-> N_movie_srt, data |-> D_crlf],
      [name |-> N_hidden_srt, data |-> D_lf]>>
A_english == <<[name |-> N_movie_EN_srt, data |-> D_crlf]>>
A_upper   == <<[name |-> N_movie_txt, data |-> D_crlf],
               [name |-> N_movie_SRT, data |-> D_lf]>>

Content(rar, zip, members) == [rar |-> rar, zip |-> zip, members |-> members]

Contents ==
    {Content(FALSE, FALSE, << >>),
     Content(TRUE, FALSE, A_example),
     Content(FALSE, TRUE, A_example),
     Content(TRUE, TRUE, A_upper),
     Content(FALSE, TRUE, A_english),
     Content(FALSE, TRUE, << >>)}

TransportError == [t |-> "error", status |-> 0, content |-> Content(FALSE, FALSE, << >>)]
Reply(status, content) == [t |-> "response", status |-> status, content |-> content]

Responses ==
    {TransportError,
     Reply(204, Content(FALSE, TRUE, A_example)),
     Reply(404, Content(FALSE, TRUE, A_example)),
     Reply(500, Content(FALSE, FALSE, << >>))}
    \cup {Reply(200, c) : c \in Contents}

(***************************************************************************)
(* Specification of a provider session: list_subtitles, then get_matches   *)
(* and download_subtitle on the candidates it returned, in any order.      *)
(***************************************************************************)
Init ==
    /\ pc = "idle"
    /\ video = NoVideo
    /\ response = NoResponse
    /\ raised = "none"
    /\ q = None
    /\ subtitles = << >>
    /\ archive = << >>
    /\ extracted = NotExtracted
    /\ gm = NoCall
    /\ dl = NoDownload

\* list_subtitles(video, languages), which is query(languages, video)
ListSubtitles ==
    \E v \in SessionVideos, r \in SessionResponses :
        /\ video' = v
        /\ response' = r
        /\ q' = QueryParams(v)
        /\ raised' = search(v, r).raised
        /\ subtitles' = search(v, r).subtitles
        /\ pc' = "list_subtitles"
        /\ archive' = << >>
        /\ extracted' = NotExtracted
        /\ gm' = NoCall
        /\ dl' = NoDownload

\* subtitles[i].get_matches(v)
GetMatches ==
    \E i \in DOMAIN subtitles, v \in SessionVideos :
        /\ subtitles' = [subtitles EXCEPT ![i] = get_matches(subtitles[i], v)]
        /\ gm' = [index |-> i, video |-> v, returned |-> subtitles'[i].found_matches]
        /\ pc' = "get_matches"
        /\ archive' = << >>
        /\ extracted' = NotExtracted
        /\ dl' = NoDownload
        /\ UNCHANGED <<video, response, raised, q>>

\* download_subtitle(subtitles[i]), the GET receiving resp
DownloadSubtitle ==
    \E i \in DOMAIN subtitles, resp \in Responses :
        LET run == download_subtitle(subtitles[i], resp)
        IN  /\ subtitles' = [subtitles EXCEPT ![i] = run.subtitle]
            /\ dl' = [index |-> i, resp |-> resp, outcome |-> run.outcome,
                      trace |-> run.trace]
            /\ archive' = run.archive
            /\ extracted' = run.extracted
            /\ pc' = "download_subtitle"
            /\ gm' = NoCall
            /\ UNCHANGED <<video, response, raised, q>>

Next == ListSubtitles \/ GetMatches \/ DownloadSubtitle

Spec == Init /\ [][Next]_vars

(***************************************************************************)
(* Properties of get_file (SpecArchive)                                    *)
(***************************************************************************)
\* The three filters in the words of the specification: the last path
\* segment does not start with ".", the name ends with ".srt" whatever the
\* case, and the lower-cased name holds no English marker.
Acceptable(name) ==
    LET n       == Len(name)
        low     == Lower(name)
        segment == CHOOSE k \in 0..n :
                       /\ \A j \in (k + 1)..n : name[j] # "/"
                       /\ (k = 0 \/ name[k] = "/")
    IN  /\ ~(segment < n /\ name[segment + 1] = ".")
        /\ n >= 4 /\ \A k \in 1..4 : low[n - 4 + k] = DotSrt[k]
        /\ \A m \in {MarkEng, MarkDotEn, MarkDotEng} :
               \A k \in 1..n : k + Len(m) - 1 > n \/ SubSeq(low, k, k + Len(m) - 1) # m

\* C5: get_file returns the content of the first entry, in listing order,
\* that passes all three filters (not hidden, ".srt" case-insensitively,
\* no English marker) and reads no other entry; for the listing
\* movie.eng.srt, movie.srt, .hidden.srt it returns movie.srt.
C5_FirstAcceptableEntry ==
    pc = "return" =>
        /\ \E i \in DOMAIN archive :
               /\ Acceptable(archive[i].name)
               /\ \A j \in 1..(i - 1) : ~Acceptable(archive[j].name)
               /\ extracted.name = archive[i].name
               /\ extracted.data = archive[i].data
               /\ extracted.reads = <<archive[i].name>>
        /\ (NameList(archive) = <<N_movie_eng_srt, N_movie_srt, N_hidden_srt>>
               => extracted.name = N_movie_srt)

\* C6: get_file ends in the "Can not find the subtitle" error exactly when
\* no entry of the archive passes all three filters, and then it has read
\* no entry.
C6_NotFoundIffNoneAcceptable ==
    pc # "call" =>
        /\ (pc = "raise") <=> (\A i \in DOMAIN archive : ~Acceptable(archive[i].name))
        /\ pc = "raise" =>
               /\ extracted.outcome =
                      "ValueError: Can not find the subtitle in the compressed file"
               /\ extracted.reads = << >>

C6_Witness ==
    /\ pc = "raise"
    /\ Len(archive) >= 2
    /\ \E i \in DOMAIN archive : EndsWith(Lower(archive[i].name), DotSrt)

(***************************************************************************)
(* Properties of query (SpecQuery)                                         *)
(***************************************************************************)
\* n written with two digits, for n below 100; longer numbers in full
TwoDigits(n) ==
    IF n < 100 THEN <<DigitChars[(n \div 10) + 1], DigitChars[(n % 10) + 1]>>
    ELSE Digits(n)

ResultTitle(i) ==
    IF "title" \in DOMAIN body.v[i] THEN Lower(body.v[i]["title"]) ELSE << >>
ResultAltTitle(i) ==
    IF "alt_title" \in DOMAIN body.v[i] THEN Lower(body.v[i]["alt_title"])
    ELSE ResultTitle(i)

\* str(result["year"]) == video.year
SameYearString(i) ==
    video.year.t = "str" /\ video.year.s = StrChars(body.v[i]["year"])

\* the episode shortcut: the lower-cased query is part of title or alt_title
WholeQueryFound(i) ==
    /\ IsEpisode(video)
    /\ Contains(Lower(q.query), ResultTitle(i)) \/ Contains(Lower(q.query), ResultAltTitle(i))

\* C3 as stated: the candidate carries "year" iff str(result["year"]) equals
\* video.year.
C3_YearIffSameString ==
    (pc = "return" /\ body.t = "list") =>
        \A i \in DOMAIN subtitles :
            ("year" \in subtitles[i].found_matches) <=> SameYearString(i)

\* C3 as amended: the candidate carries "year" iff str(result["year"])
\* equals video.year, or the video is an episode whose lower-cased query
\* string is part of the result's title or alt_title.
C3_YearTag ==
    (pc = "return" /\ body.t = "list") =>
        \A i \in DOMAIN subtitles :
            ("year" \in subtitles[i].found_matches)
                <=> (SameYearString(i) \/ WholeQueryFound(i))

C3_Witness ==
    /\ pc = "return"
    /\ body.t = "list"
    /\ \E i, j \in DOMAIN subtitles :
           /\ "year" \in subtitles[i].found_matches
           /\ ~SameYearString(i)
           /\ "year" \notin subtitles[j].found_matches
           /\ body.v[j]["year"] = PyInt(2020)

\* C4: once the body was parsed (the GET returned a response whose status
\* raise_for_status accepts), a JSON object gives the empty list and a JSON
\* array of n results gives n candidates, the i-th built from the i-th result.
C4_OneCandidatePerResult ==
    (pc # "call" /\ response.t = "response" /\ response.status \notin 400..599) =>
        /\ body.t = "dict" => pc = "return" /\ subtitles = << >>
        /\ body.t = "list" =>
               /\ pc = "return"
               /\ Len(subtitles) = Len(body.v)
               /\ \A i \in DOMAIN body.v :
                      /\ subtitles[i].download_id = StrChars(body.v[i]["id"])
                      /\ subtitles[i].filename = body.v[i]["filename"]
                      /\ subtitles[i].guessed_release_info = body.v[i]["release"]
                      /\ subtitles[i].download_type = video.kind

C4_Witness ==
    /\ pc = "return"
    /\ body.t = "list"
    /\ Len(body.v) = MaxResults
    /\ body.v[1]["id"] # body.v[2]["id"]
    /\ subtitles[1].download_id = <<"1", "0", "0">>

\* C9 as stated: "title" is added when the lower-cased video title is part
\* of the result's title or alt_title, and also when the result's title or
\* alt_title is part of the lower-cased video title (a result without a
\* title, read as the empty string, is left out of the second case).
C9_TitleEitherDirection ==
    (pc = "return" /\ body.t = "list") =>
        \A i \in DOMAIN subtitles :
            (\/ Contains(Lower(video.title), ResultTitle(i))
             \/ Contains(Lower(video.title), ResultAltTitle(i))
             \/ ResultTitle(i) # << >> /\ Contains(ResultTitle(i), Lower(video.title))
             \/ ResultAltTitle(i) # << >>
                    /\ Contains(ResultAltTitle(i), Lower(video.title)))
                => "title" \in subtitles[i].found_matches

\* C9 as amended: "title" is in the match set iff the lower-cased video
\* title is part of the result's lower-cased title or alt_title, or the
\* video is an episode whose lower-cased query string is part of one of
\* them; a result title that is part of the video title adds nothing.
C9_TitleTag ==
    (pc = "return" /\ body.t = "list") =>
        \A i \in DOMAIN subtitles :
            ("title" \in subtitles[i].found_matches)
                <=> (\/ Contains(Lower(video.title), ResultTitle(i))
                     \/ Contains(Lower(video.title), ResultAltTitle(i))
                     \/ WholeQueryFound(i))

C9_Witness ==
    /\ pc = "return"
    /\ body.t = "list"
    /\ \E i, j \in DOMAIN subtitles :
           /\ ResultTitle(i) # << >>
           /\ Contains(ResultTitle(i), Lower(video.title))
           /\ "title" \notin subtitles[i].found_matches
           /\ "title" \in subtitles[j].found_matches
           /\ ~WholeQueryFound(j)

CallsOf(names) == {k \in DOMAIN dl.trace : dl.trace[k] \in names}

\* C7: a body that is neither RAR nor ZIP ends download_subtitle in the
\* "Unsupported compressed format" error with no entry listed or read; the
\* RAR test comes before the ZIP test, and entries are listed only after an
\* archive was opened.
C7_UnsupportedBeforeScanning ==
    pc = "download_subtitle" =>
        /\ (dl.resp.t = "response" /\ dl.resp.status = 200
                /\ ~dl.resp.content.rar /\ ~dl.resp.content.zip)
             => /\ dl.outcome = "ValueError: Unsupported compressed format"
                /\ CallsOf({"namelist", "read", "RarFile", "ZipFile"}) = {}
                /\ extracted = NotExtracted
        /\ \A k \in CallsOf({"is_zipfile"}) : \E j \in CallsOf({"is_rarfile"}) : j < k
        /\ \A k \in CallsOf({"namelist", "read"}) :
               \E j \in CallsOf({"RarFile", "ZipFile"}) : j < k
        /\ (dl.resp.t = "response" /\ dl.resp.status = 200 /\ dl.resp.content.rar)
             => CallsOf({"is_zipfile", "ZipFile"}) = {} /\ CallsOf({"RarFile"}) # {}

C7_Witness ==
    /\ pc = "download_subtitle"
    /\ dl.resp.t = "response"
    /\ dl.resp.status = 200
    /\ ~dl.resp.content.rar /\ ~dl.resp.content.zip
    /\ dl.trace = <<"GET", "is_rarfile", "is_zipfile">>

\* the tags query gave the i-th candidate at construction
ConstructionTags(i) == ItemMatches(video, q, body.v[i])

\* C8: every get_matches call leaves the candidate's match set equal to its
\* value before the call united with the tags guessed from filename and
\* from release_info for the video of the call, and returns that set; so
\* the set never loses a tag and always holds the construction tags.
C8_MatchesAccumulate ==
    /\ [](\A i \in DOMAIN subtitles :
              ConstructionTags(i) \subseteq subtitles[i].found_matches)
    /\ [][pc' = "get_matches" =>
            LET i == gm'.index
                v == gm'.video
            IN  /\ subtitles[i].found_matches \subseteq subtitles'[i].found_matches
                /\ subtitles'[i].found_matches =
                       subtitles[i].found_matches
                       \cup GuessMatches(v, body.v[i]["filename"])
                       \cup GuessMatches(v, body.v[i]["release"])
                /\ gm'.returned = subtitles'[i].found_matches]_vars

C8_Witness ==
    /\ pc = "get_matches"
    /\ gm.video # video
    /\ LET i == gm.index
           thisCall == GuessMatches(gm.video, subtitles[i].filename)
                       \cup GuessMatches(gm.video, subtitles[i].guessed_release_info)
       IN  /\ thisCall # {}
           /\ ~(thisCall \subseteq ConstructionTags(i))
           /\ ~(gm.returned \subseteq ConstructionTags(i) \cup thisCall)

\* the response makes the download fail at one of its steps
Failing(resp) ==
    \/ resp.t = "error"
    \/ resp.status \notin 200..299
    \/ resp.status # 200
    \/ ~resp.content.rar /\ ~resp.content.zip
    \/ \A k \in DOMAIN resp.content.members : ~Acceptable(resp.content.members[k].name)

\* C10: content is set only by a download_subtitle call on that candidate
\* that ran to completion; a download whose response fails at any step ends
\* in an error and leaves every candidate as it was; every download issues
\* exactly one request and leaves the other candidates unchanged.
C10_OnlyCompletedDownloadSetsContent ==
    [][/\ pc' = "download_subtitle" =>
            LET i == dl'.index
            IN  /\ DOMAIN subtitles' = DOMAIN subtitles
                /\ \A j \in DOMAIN subtitles : j # i => subtitles'[j] = subtitles[j]
                /\ Cardinality({k \in DOMAIN dl'.trace : dl'.trace[k] = "GET"}) = 1
                /\ Failing(dl'.resp) =>
                       dl'.outcome # "return" /\ subtitles' = subtitles
                /\ subtitles'[i].content # subtitles[i].content =>
                       dl'.outcome = "return"
                /\ subtitles'[i].download_id = subtitles[i].download_id
                /\ subtitles'[i].download_type = subtitles[i].download_type
                /\ subtitles'[i].found_matches = subtitles[i].found_matches
       /\ pc' # "download_subtitle" =>
            \A i \in DOMAIN subtitles' :
                subtitles'[i].content # None =>
                    i \in DOMAIN subtitles /\ subtitles[i].content = subtitles'[i].content
      ]_vars

C10_Witness ==
    /\ pc = "download_subtitle"
    /\ dl.outcome = "ProviderError: Bad status code"
    /\ subtitles[dl.index].content = None
    /\ \E j \in DOMAIN subtitles : j # dl.index /\ subtitles[j].content # None

====
